---- MODULE Spec2Model ----
(***************************************************************************)
(* A model of the payroll data model and its comparison queries            *)
(* (payroll/models.py): employers (units and departments), population      *)
(* readings, positions, jobs and salaries, the write-time validation of    *)
(* employers, cascading deletes, and the percentile queries that rank a    *)
(* salary inside its own employer and inside its peer group.               *)
(***************************************************************************)
EXTENDS Integers, FiniteSets, Sequences, TLC

VARIABLES
    employers,   \* payroll_employer: id -> [parent, taxonomy, universe, vintage]
    population,  \* payroll_employerpopulation: id -> [employer, data_year, population]
    positions,   \* payroll_position: id -> [employer]
    jobs,        \* payroll_job: id -> [person, position]
    salaries,    \* payroll_salary: id -> [job, amount, extra_pay, vintage]
    ret          \* what the last call returned (or raised), with its arguments

vars == <<employers, population, positions, jobs, salaries, ret>>

-----------------------------------------------------------------------------
(* Values *)

\* A null foreign key, and Python's None as an argument.
NULL == 0

\* A null amount or extra_pay (0 is a pay of its own).
NoPay == -1

\* Bounds of the model: the rows a table may hold in each specification.
MaxReadings == 2
MaxEmployers == 2
MaxPositions == 2
MaxJobs == 1
MaxSalaries == 1
MaxRankSalaries == 4
MaxYearSalaries == 3
MaxLikeSalaries == 2
MaxOwnSalaries == 3

\* data_import_upload joined to data_import_standardizedfile: each upload has
\* one standardized file, which carries the reporting year.
Uploads == {1, 2}

ReportingYearOf(upload) == 2016 + upload

\* The years population readings are taken in, and the years asked for.
DataYears == {2016, 2017, 2018}

\* payroll_employertaxonomy rows: the six kinds class_lookup knows, a special
\* municipality that is not Chicago, and an entity type class_lookup lacks.
TaxonomyRows ==
    [i \in 1..8 |->
        CASE i = 1 -> [entity_type |-> "Municipal", chicago |-> TRUE, cook_or_collar |-> FALSE]
          [] i = 2 -> [entity_type |-> "Municipal", chicago |-> FALSE, cook_or_collar |-> FALSE]
          [] i = 3 -> [entity_type |-> "County", chicago |-> FALSE, cook_or_collar |-> TRUE]
          [] i = 4 -> [entity_type |-> "County", chicago |-> FALSE, cook_or_collar |-> FALSE]
          [] i = 5 -> [entity_type |-> "Township", chicago |-> FALSE, cook_or_collar |-> TRUE]
          [] i = 6 -> [entity_type |-> "Township", chicago |-> FALSE, cook_or_collar |-> FALSE]
          [] i = 7 -> [entity_type |-> "Municipal", chicago |-> FALSE, cook_or_collar |-> TRUE]
          [] OTHER -> [entity_type |-> "School District", chicago |-> FALSE, cook_or_collar |-> FALSE]]

TaxonomyIds == DOMAIN TaxonomyRows

\* payroll_employeruniverse rows.
UniverseIds == {1, 2}

\* Rows of the tables.
EmployerRow(parent, taxonomy, universe, vintage) ==
    [parent |-> parent, taxonomy |-> taxonomy, universe |-> universe, vintage |-> vintage]

SalaryRow(job, amount, extra_pay, vintage) ==
    [job |-> job, amount |-> amount, extra_pay |-> extra_pay, vintage |-> vintage]

NoEmployer == EmployerRow(NULL, NULL, NULL, NULL)

NoSalary == SalaryRow(NULL, NoPay, NoPay, NULL)

\* What the last call returned, with its arguments: op(arg, year), or op on the
\* salary, or the write of the employer row emp. kind is "none" (no call yet),
\* "None", "N/A", "str" (val), "int" (num), "float" (num / den), "ok" or the
\* exception raised; rows are the salary rows a percentile query ranked.
NoCall ==
    [op |-> "", arg |-> NULL, year |-> NULL, salary |-> NoSalary, emp |-> NoEmployer,
     kind |-> "none", val |-> "", num |-> 0, den |-> 1, rows |-> {}]

Call(op, arg, year) == [NoCall EXCEPT !.op = op, !.arg = arg, !.year = year]

RetNone(call) == [call EXCEPT !.kind = "None"]

RetStr(call, s) == [call EXCEPT !.kind = "str", !.val = s]

RetInt(call, n) == [call EXCEPT !.kind = "int", !.num = n]

RetFloat(call, n, d) == [call EXCEPT !.kind = "float", !.num = n, !.den = d]

RetRaise(call, exc) == [call EXCEPT !.kind = exc]

\* The smallest id of 1..max no row of the table has.
NextId(table, max) == CHOOSE i \in 1..max : i \notin DOMAIN table /\ \A j \in 1..(i - 1) : j \in DOMAIN table

\* The table without the rows whose ids are in gone.
Without(table, gone) == [i \in DOMAIN table \ gone |-> table[i]]

\* The table with one more row, or one row replaced.
With(table, id, row) == [i \in DOMAIN table \cup {id} |-> IF i = id THEN row ELSE table[i]]

Empty == [i \in {} |-> NULL]

-----------------------------------------------------------------------------
(* Employer *)

is_department(row) == row.parent # NULL

\* A faulty is_unclassified, which forgets departments.
is_unclassified_unit_only(row) == ~is_department(row) /\ row.taxonomy = NULL

is_unclassified(row) ==
    \/ is_department(row) /\ row.universe = NULL
    \/ ~is_department(row) /\ row.taxonomy = NULL

is_special(taxonomy) == TaxonomyRows[taxonomy].chicago \/ TaxonomyRows[taxonomy].cook_or_collar

\* class_lookup.get(key): <<found, lower, upper>>, the bounds in thousands.
class_lookup(entity_type, special) ==
    CASE entity_type = "Municipal" /\ special -> <<TRUE, -1, -1>>
      [] entity_type = "Municipal" /\ ~special -> <<TRUE, 10, 50>>
      [] entity_type = "County" /\ special -> <<TRUE, 500, 1000>>
      [] entity_type = "County" /\ ~special -> <<TRUE, 25, 75>>
      [] entity_type = "Township" /\ special -> <<TRUE, 25, 100>>
      [] entity_type = "Township" /\ ~special -> <<TRUE, 10, 50>>
      [] OTHER -> <<FALSE, 0, 0>>

\* The population readings tried for a unit of this taxonomy: 0, a million, and
\* both sides of each boundary class_lookup holds for it.
PopulationsFor(taxonomy) ==
    LET bounds == IF taxonomy = NULL THEN <<FALSE, 0, 0>>
                  ELSE class_lookup(TaxonomyRows[taxonomy].entity_type, is_special(taxonomy))
    IN  {0, 1000000} \cup
        {n \in {bounds[2] * 1000 - 1, bounds[2] * 1000,
                bounds[3] * 1000 - 1, bounds[3] * 1000} : n > 0}

\* The readings of employer e (self.population.all()).
ReadingsOf(e) == {p \in DOMAIN population : population[p].employer = e}

\* min(population_years, key=lambda x: target_year - x): the years whose key
\* is the least.
ClosestYears(years, target_year) ==
    {x \in years : \A y \in years : target_year - x <= target_year - y}

\* Employer.get_population(year): None without readings; the reading of the
\* year min() picks, by population.get(data_year=closest), which raises when
\* several readings carry that year.
get_population(e, year) ==
    IF ReadingsOf(e) = {}
    THEN RetNone(Call("get_population", e, year))
    ELSE LET target_year == IF year # NULL THEN year
                            ELSE ReportingYearOf(employers[e].vintage)
             population_years == {population[p].data_year : p \in ReadingsOf(e)}
             closest == CHOOSE x \in ClosestYears(population_years, target_year) : TRUE
             got == {p \in ReadingsOf(e) : population[p].data_year = closest}
         IN  IF Cardinality(got) = 1
             THEN RetInt(Call("get_population", e, year),
                         population[CHOOSE p \in got : TRUE].population)
             ELSE RetRaise(Call("get_population", e, year), "MultipleObjectsReturned")

\* Employer.size_class.
size_class(e) ==
    LET row == employers[e] IN
    IF row.taxonomy # NULL
    THEN LET bounds == class_lookup(TaxonomyRows[row.taxonomy].entity_type,
                                    is_special(row.taxonomy))
             got == get_population(e, NULL)
         IN  IF bounds[1]
             THEN IF got.kind = "MultipleObjectsReturned"
                  THEN RetRaise(Call("size_class", e, NULL), got.kind)
                  ELSE IF got.kind = "int" /\ got.num # 0
                  THEN IF got.num >= bounds[3] * 1000
                       THEN RetStr(Call("size_class", e, NULL), "Large")
                       ELSE IF got.num >= bounds[2] * 1000
                       THEN RetStr(Call("size_class", e, NULL), "Medium")
                       ELSE RetStr(Call("size_class", e, NULL), "Small")
                  ELSE RetNone(Call("size_class", e, NULL))
             ELSE RetNone(Call("size_class", e, NULL))
    ELSE RetNone(Call("size_class", e, NULL))

-----------------------------------------------------------------------------
(* Population readings and size classes: one unit, its readings, and the   *)
(* two queries.                                                            *)

\* EmployerPopulation.objects.create(employer=e, data_year=y, population=n).
CreatePopulation(e, y, n) ==
    /\ e \in DOMAIN employers
    /\ Cardinality(DOMAIN population) < MaxReadings
    /\ population' = With(population, NextId(population, MaxReadings),
                          [employer |-> e, data_year |-> y, population |-> n])
    /\ ret' = NoCall
    /\ UNCHANGED <<employers, positions, jobs, salaries>>

GetPopulation(e, year) ==
    /\ e \in DOMAIN employers
    /\ ret' = get_population(e, year)
    /\ UNCHANGED <<employers, population, positions, jobs, salaries>>

SizeClass(e) ==
    /\ e \in DOMAIN employers
    /\ ret' = size_class(e)
    /\ UNCHANGED <<employers, population, positions, jobs, salaries>>

InitPop ==
    /\ \E t \in TaxonomyIds \cup {NULL}, v \in Uploads :
          employers = With(Empty, 1, EmployerRow(NULL, t, NULL, v))
    /\ population = Empty
    /\ positions = Empty
    /\ jobs = Empty
    /\ salaries = Empty
    /\ ret = NoCall

NextPop ==
    \/ \E y \in DataYears, n \in PopulationsFor(employers[1].taxonomy) :
          CreatePopulation(1, y, n)
    \/ \E year \in DataYears \cup {NULL} : GetPopulation(1, year)
    \/ SizeClass(1)

SpecPop == InitPop /\ [][NextPop]_vars

-----------------------------------------------------------------------------
(* Salary: the rows, and the percentile queries.  No query reads a salary's *)
(* id, so payroll_salary is kept as a bag: row -> number of such rows.      *)

\* The number of salary rows among the distinct rows, copies counted.
RECURSIVE CountRows(_, _)
CountRows(bag, rows) ==
    IF rows = {} THEN 0
    ELSE LET r == CHOOSE x \in rows : TRUE
         IN  bag[r] + CountRows(bag, rows \ {r})

Insert(bag, row) ==
    [r \in DOMAIN bag \cup {row} |->
        IF r = row THEN (IF row \in DOMAIN bag THEN bag[row] + 1 ELSE 1) ELSE bag[r]]

Remove(bag, row) ==
    [r \in {x \in DOMAIN bag : x # row \/ bag[x] > 1} |->
        IF r = row THEN bag[row] - 1 ELSE bag[r]]

\* SalaryManager: COALESCE(amount, 0) + COALESCE(extra_pay, 0).
total_pay(r) ==
    (IF r.amount = NoPay THEN 0 ELSE r.amount)
    + (IF r.extra_pay = NoPay THEN 0 ELSE r.extra_pay)

\* CheckConstraint total_pay_not_null.
total_pay_not_null(amount, extra_pay) == amount # NoPay \/ extra_pay # NoPay

\* salary JOIN job JOIN position: position.employer_id and job.person_id.
employer_id(r) == positions[jobs[r.job].position].employer

person_id(r) == jobs[r.job].person

\* A faulty year filter, which lets every reporting year through.
in_any_reporting_year(r, s) == TRUE

\* JOIN upload JOIN s_file ... WHERE s_file.reporting_year = {reporting_year}.
in_reporting_year(r, s) == ReportingYearOf(r.vintage) = ReportingYearOf(s.vintage)

\* A faulty percent_rank, which ranks a row after its ties.
percent_rank_after_ties(r, rows) ==
    LET upto == {q \in rows : total_pay(q) <= total_pay(r)}
        n == CountRows(salaries, rows)
    IN  IF n = 1 THEN <<0, 1>>
        ELSE <<100 * (CountRows(salaries, upto) - 1), n - 1>>

\* A faulty percent_rank, which puts a single row at the top.
percent_rank_single_top(r, rows) ==
    LET before == {q \in rows : total_pay(q) < total_pay(r)}
        n == CountRows(salaries, rows)
    IN  IF n = 1 THEN <<100, 1>>
        ELSE <<100 * CountRows(salaries, before), n - 1>>

\* percent_rank() OVER (ORDER BY total pay ASC) of row r among the rows, times
\* 100, as <<numerator, denominator>>: (rank - 1) / (rows - 1), where rank is
\* one more than the number of rows that sort before r; 0 for a single row.
percent_rank(r, rows) ==
    LET before == {q \in rows : total_pay(q) < total_pay(r)}
        n == CountRows(salaries, rows)
    IN  IF n = 1 THEN <<0, 1>>
        ELSE <<100 * CountRows(salaries, before), n - 1>>

\* SELECT percentile FROM salary_percentiles WHERE person_id = {id}, then
\* cursor.fetchone() and result[0] * 100: the percentile of any one of the
\* person's rows (SQL promises no order), or a TypeError on no row.
fetchone(call, s, rows) ==
    LET mine == {r \in rows : person_id(r) = person_id(s)}
        ranked == [call EXCEPT !.rows = rows]
    IN  IF mine = {} THEN {RetRaise(ranked, "TypeError")}
        ELSE {RetFloat(ranked, percent_rank(r, rows)[1], percent_rank(r, rows)[2]) : r \in mine}

SalaryCall(op, s) == [NoCall EXCEPT !.op = op, !.salary = s]

\* A faulty employer_percentile, which ranks a department's salary over its
\* parent and all of the parent's departments.
employer_percentile_unit_wide(s) ==
    LET unit == IF employers[employer_id(s)].parent # NULL
                THEN employers[employer_id(s)].parent
                ELSE employer_id(s)
        rows == {r \in DOMAIN salaries :
                    /\ \/ employer_id(r) = unit
                       \/ employers[employer_id(r)].parent = unit
                    /\ in_reporting_year(r, s)}
    IN  fetchone(SalaryCall("employer_percentile", s), s, rows)

\* A faulty employer_percentile, which ranks the rows of the employer's
\* children only.
employer_percentile_children_only(s) ==
    LET rows == {r \in DOMAIN salaries :
                    /\ employers[employer_id(r)].parent = employer_id(s)
                    /\ in_reporting_year(r, s)}
    IN  fetchone(SalaryCall("employer_percentile", s), s, rows)

\* Salary.employer_percentile: the values the property can return.
employer_percentile(s) ==
    LET rows == {r \in DOMAIN salaries :
                    /\ \/ employer_id(r) = employer_id(s)
                       \/ employers[employer_id(r)].parent = employer_id(s)
                    /\ in_reporting_year(r, s)}
    IN  fetchone(SalaryCall("employer_percentile", s), s, rows)

\* A faulty employer_parent_lookup, which maps a department to itself.
employer_parent_lookup_self(e) == e

\* employer_parent_lookup: COALESCE(parent_id, id).
employer_parent_lookup(e) ==
    IF employers[e].parent # NULL THEN employers[e].parent ELSE e

\* Salary._like_unit_percentile(employer).
_like_unit_percentile(s, employer) ==
    LET rows == {r \in DOMAIN salaries :
                    /\ employers[employer_parent_lookup(employer_id(r))].taxonomy
                         = employers[employer].taxonomy
                    /\ in_reporting_year(r, s)}
    IN  fetchone(SalaryCall("like_employer_percentile", s), s, rows)

\* A faulty taxonomy_members, which takes the departments of every parent.
taxonomy_members_any_parent(taxonomy) ==
    {d \in DOMAIN employers : employers[d].parent \in DOMAIN employers}

\* The CTE taxonomy_members: the departments of the units of the taxonomy.
taxonomy_members(taxonomy) ==
    {d \in DOMAIN employers :
        /\ employers[d].parent \in DOMAIN employers
        /\ employers[employers[d].parent].taxonomy = taxonomy}

\* A faulty _like_department_percentile, which ranks without looking at the
\* parent's classification.
_like_department_percentile_unchecked(s, employer) ==
    LET rows == {r \in DOMAIN salaries :
                    /\ is_department(employers[employer_id(r)])
                    /\ employers[employer_id(r)].universe = employers[employer].universe
                    /\ in_reporting_year(r, s)}
    IN  fetchone(SalaryCall("like_employer_percentile", s), s, rows)

\* Salary._like_department_percentile(employer).
_like_department_percentile(s, employer) ==
    LET parent == employers[employers[employer].parent] IN
    IF is_unclassified(parent)
    THEN {RetNone(SalaryCall("like_employer_percentile", s))}
    ELSE IF parent.taxonomy = NULL
    THEN {RetRaise(SalaryCall("like_employer_percentile", s), "AttributeError")}
    ELSE LET rows == {r \in DOMAIN salaries :
                         /\ employer_id(r) \in taxonomy_members(parent.taxonomy)
                         /\ employers[employer_id(r)].universe = employers[employer].universe
                         /\ in_reporting_year(r, s)}
         IN  fetchone(SalaryCall("like_employer_percentile", s), s, rows)

\* Salary.like_employer_percentile: the values the property can return.
like_employer_percentile(s) ==
    LET employer == employer_id(s) IN
    IF is_unclassified(employers[employer])
    THEN {[SalaryCall("like_employer_percentile", s) EXCEPT !.kind = "N/A"]}
    ELSE IF is_department(employers[employer])
    THEN _like_department_percentile(s, employer)
    ELSE _like_unit_percentile(s, employer)

\* Salary.objects.create(job=..., amount=..., extra_pay=..., vintage=...).
CreateSalary(row, max) ==
    /\ row.job \in DOMAIN jobs
    /\ total_pay_not_null(row.amount, row.extra_pay)
    /\ CountRows(salaries, DOMAIN salaries) < max
    /\ salaries' = Insert(salaries, row)
    /\ ret' = NoCall
    /\ UNCHANGED <<employers, population, positions, jobs>>

\* salary.delete().
DeleteSalary(row) ==
    /\ row \in DOMAIN salaries
    /\ salaries' = Remove(salaries, row)
    /\ ret' = NoCall
    /\ UNCHANGED <<employers, population, positions, jobs>>

\* salary.amount, salary.extra_pay = ...; salary.save().
SaveSalary(row, amount, extra_pay) ==
    /\ row \in DOMAIN salaries
    /\ total_pay_not_null(amount, extra_pay)
    /\ <<amount, extra_pay>> # <<row.amount, row.extra_pay>>
    /\ salaries' = Insert(Remove(salaries, row),
                          [row EXCEPT !.amount = amount, !.extra_pay = extra_pay])
    /\ ret' = NoCall
    /\ UNCHANGED <<employers, population, positions, jobs>>

EmployerPercentile(s) ==
    /\ s \in DOMAIN salaries
    /\ \E r \in employer_percentile(s) : ret' = r
    /\ UNCHANGED <<employers, population, positions, jobs, salaries>>

LikeEmployerPercentile(s) ==
    /\ s \in DOMAIN salaries
    /\ \E r \in like_employer_percentile(s) : ret' = r
    /\ UNCHANGED <<employers, population, positions, jobs, salaries>>

-----------------------------------------------------------------------------
(* Ranking: one classified unit and its department, two jobs at the unit    *)
(* and one at the department, held by three people.                         *)

\* <<amount, extra_pay>> of the salaries tried: a null extra_pay, a null
\* amount, and both set.
RankPays == {<<30000, NoPay>>, <<NoPay, 45000>>, <<45000, 45000>>}

JobRow(person, position) == [person |-> person, position |-> position]

PositionRow(employer) == [employer |-> employer]

InitRank ==
    /\ employers = With(With(Empty, 1, EmployerRow(NULL, 2, NULL, 1)),
                        2, EmployerRow(1, NULL, 1, 1))
    /\ population = Empty
    /\ positions = With(With(Empty, 1, PositionRow(1)), 2, PositionRow(2))
    /\ jobs = With(With(With(Empty, 1, JobRow(1, 1)), 2, JobRow(2, 2)), 3, JobRow(3, 1))
    /\ salaries = Empty
    /\ ret = NoCall

\* Salaries of one reporting year.
NextRank ==
    \/ \E j \in DOMAIN jobs, pay \in RankPays :
          CreateSalary(SalaryRow(j, pay[1], pay[2], 1), MaxRankSalaries)
    \/ \E s \in DOMAIN salaries : DeleteSalary(s)
    \/ \E s \in DOMAIN salaries, pay \in RankPays : SaveSalary(s, pay[1], pay[2])
    \/ \E s \in DOMAIN salaries : EmployerPercentile(s)
    \/ \E s \in DOMAIN salaries : LikeEmployerPercentile(s)

SpecRank == InitRank /\ [][NextRank]_vars

\* Salaries of two reporting years, in the first job at the unit and in the
\* job at the department.
YearPays == {<<30000, NoPay>>, <<NoPay, 45000>>}

NextYear ==
    \/ \E j \in {1, 2}, pay \in YearPays, v \in Uploads :
          CreateSalary(SalaryRow(j, pay[1], pay[2], v), MaxYearSalaries)
    \/ \E s \in DOMAIN salaries : DeleteSalary(s)
    \/ \E s \in DOMAIN salaries, pay \in YearPays : SaveSalary(s, pay[1], pay[2])
    \/ \E s \in DOMAIN salaries : EmployerPercentile(s)
    \/ \E s \in DOMAIN salaries : LikeEmployerPercentile(s)

SpecYear == InitRank /\ [][NextYear]_vars

-----------------------------------------------------------------------------
(* Peer groups: two units, each with one department, classified or not, a   *)
(* job at each of the four, and salaries of two reporting years.            *)

InitLike ==
    /\ \E t1 \in {NULL, 2}, u2 \in {NULL, 1}, t3 \in {NULL, 2, 4}, u4 \in {NULL, 1, 2} :
          employers = With(With(With(With(Empty,
                          1, EmployerRow(NULL, t1, NULL, 1)),
                          2, EmployerRow(1, NULL, u2, 1)),
                          3, EmployerRow(NULL, t3, NULL, 1)),
                          4, EmployerRow(3, NULL, u4, 1))
    /\ population = Empty
    /\ positions = [p \in 1..4 |-> PositionRow(p)]
    /\ jobs = [j \in 1..4 |-> JobRow(IF j \in {1, 3} THEN 1 ELSE 2, j)]
    /\ salaries = Empty
    /\ ret = NoCall

NextLike ==
    \/ \E j \in DOMAIN jobs, pay \in YearPays, v \in Uploads :
          CreateSalary(SalaryRow(j, pay[1], pay[2], v), MaxLikeSalaries)
    \/ \E s \in DOMAIN salaries : EmployerPercentile(s)
    \/ \E s \in DOMAIN salaries : LikeEmployerPercentile(s)

SpecLike == InitLike /\ [][NextLike]_vars

-----------------------------------------------------------------------------
(* Own employer: one classified unit with two departments, a job at each of *)
(* the three, and salaries of two reporting years.                          *)

InitOwn ==
    /\ employers = With(With(With(Empty,
                        1, EmployerRow(NULL, 2, NULL, 1)),
                        2, EmployerRow(1, NULL, 1, 1)),
                        3, EmployerRow(1, NULL, 1, 1))
    /\ population = Empty
    /\ positions = [p \in 1..3 |-> PositionRow(p)]
    /\ jobs = [j \in 1..3 |-> JobRow(j, j)]
    /\ salaries = Empty
    /\ ret = NoCall

NextOwn ==
    \/ \E j \in DOMAIN jobs, pay \in YearPays, v \in Uploads :
          CreateSalary(SalaryRow(j, pay[1], pay[2], v), MaxOwnSalaries)
    \/ \E s \in DOMAIN salaries : DeleteSalary(s)
    \/ \E s \in DOMAIN salaries : EmployerPercentile(s)
    \/ \E s \in DOMAIN salaries : LikeEmployerPercentile(s)

SpecOwn == InitOwn /\ [][NextOwn]_vars

-----------------------------------------------------------------------------
(* Employer writes: validated saves, and deletes with their cascade.        *)

\* A faulty clean, which validates units only.
clean_units_only(row) ==
    IF ~is_department(row) /\ row.universe # NULL THEN "ValidationError" ELSE "ok"

\* Employer.clean: "ok", or the exception raised.
clean(row) ==
    IF is_department(row)
    THEN (IF row.taxonomy # NULL THEN "ValidationError" ELSE "ok")
    ELSE (IF row.universe # NULL THEN "ValidationError" ELSE "ok")

\* A validated write of employer id (full_clean(), which calls clean(), then
\* save()): the row is stored only when clean() raises nothing.
SaveEmployer(id, row) ==
    /\ id \in DOMAIN employers \/ Cardinality(DOMAIN employers) < MaxEmployers
    /\ id \in DOMAIN employers \cup {NextId(employers, MaxEmployers + 1)}
    /\ row.parent \in (DOMAIN employers \ {id}) \cup {NULL}
    /\ ret' = [Call("save_employer", id, NULL) EXCEPT !.emp = row, !.kind = clean(row)]
    /\ employers' = IF clean(row) = "ok" THEN With(employers, id, row) ELSE employers
    /\ UNCHANGED <<population, positions, jobs, salaries>>

\* Employer.parent, on_delete=CASCADE: the employers and all below them.
RECURSIVE departments_below(_)
departments_below(es) ==
    LET more == es \cup {d \in DOMAIN employers : employers[d].parent \in es}
    IN  IF more = es THEN es ELSE departments_below(more)

\* Position.employer, on_delete=CASCADE.
positions_of(es) == {p \in DOMAIN positions : positions[p].employer \in es}

\* A faulty cascade, which leaves the jobs of deleted positions.
jobs_of_none(ps) == {}

\* Job.position, on_delete=CASCADE.
jobs_of(ps) == {j \in DOMAIN jobs : jobs[j].position \in ps}

\* Salary.job, on_delete=CASCADE.
salaries_of(js) == {r \in DOMAIN salaries : r.job \in js}

\* EmployerPopulation.employer, on_delete=CASCADE.
readings_of(es) == {p \in DOMAIN population : population[p].employer \in es}

\* The bag without any copy of the rows.
RemoveAll(bag, rows) == [r \in DOMAIN bag \ rows |-> bag[r]]

\* delete() of the employers es, the positions ps and the jobs js, with all
\* that cascades from them.
Delete(call, es, ps, js) ==
    LET gone_employers == departments_below(es)
        gone_positions == ps \cup positions_of(gone_employers)
        gone_jobs == js \cup jobs_of(gone_positions)
    IN  /\ employers' = Without(employers, gone_employers)
        /\ population' = Without(population, readings_of(gone_employers))
        /\ positions' = Without(positions, gone_positions)
        /\ jobs' = Without(jobs, gone_jobs)
        /\ salaries' = RemoveAll(salaries, salaries_of(gone_jobs))
        /\ ret' = call

DeleteEmployer(e) ==
    /\ e \in DOMAIN employers
    /\ Delete(Call("delete_employer", e, NULL), {e}, {}, {})

DeletePosition(p) ==
    /\ p \in DOMAIN positions
    /\ Delete(Call("delete_position", p, NULL), {}, {p}, {})

DeleteJob(j) ==
    /\ j \in DOMAIN jobs
    /\ Delete(Call("delete_job", j, NULL), {}, {}, {j})

\* Position.objects.create(employer=e).
CreatePosition(e) ==
    /\ e \in DOMAIN employers
    /\ Cardinality(DOMAIN positions) < MaxPositions
    /\ positions' = With(positions, NextId(positions, MaxPositions), PositionRow(e))
    /\ ret' = NoCall
    /\ UNCHANGED <<employers, population, jobs, salaries>>

\* Job.objects.create(person=person, position=p).
CreateJob(person, p) ==
    /\ p \in DOMAIN positions
    /\ Cardinality(DOMAIN jobs) < MaxJobs
    /\ jobs' = With(jobs, NextId(jobs, MaxJobs), JobRow(person, p))
    /\ ret' = NoCall
    /\ UNCHANGED <<employers, population, positions, salaries>>

InitEmpty ==
    /\ employers = Empty
    /\ population = Empty
    /\ positions = Empty
    /\ jobs = Empty
    /\ salaries = Empty
    /\ ret = NoCall

\* Validated writes of employers, classified or not.
NextEmp ==
    \/ \E id \in 1..(MaxEmployers + 1), parent \in DOMAIN employers \cup {NULL},
          t \in {NULL, 2}, u \in {NULL, 1} :
          SaveEmployer(id, EmployerRow(parent, t, u, 1))
    \/ \E e \in DOMAIN employers : DeleteEmployer(e)

SpecEmp == InitEmpty /\ [][NextEmp]_vars

\* Creates and deletes of employers, positions, jobs and salaries.
NextDel ==
    \/ \E parent \in DOMAIN employers \cup {NULL} :
          SaveEmployer(NextId(employers, MaxEmployers + 1), EmployerRow(parent, NULL, NULL, 1))
    \/ \E e \in DOMAIN employers : CreatePosition(e)
    \/ \E p \in DOMAIN positions : CreateJob(1, p)
    \/ \E j \in DOMAIN jobs : CreateSalary(SalaryRow(j, 30000, NoPay, 1), MaxSalaries)
    \/ \E e \in DOMAIN employers : DeleteEmployer(e)
    \/ \E p \in DOMAIN positions : DeletePosition(p)
    \/ \E j \in DOMAIN jobs : DeleteJob(j)
    \/ \E s \in DOMAIN salaries : DeleteSalary(s)

SpecDel == InitEmpty /\ [][NextDel]_vars

-----------------------------------------------------------------------------
(* Claims about population readings and size classes (SpecPop) *)

Abs(n) == IF n < 0 THEN -n ELSE n

\* The readings of employer e nearest to the year: no reading is closer, and
\* of two equally close the earlier one.
NearestReadings(e, year) ==
    {p \in ReadingsOf(e) :
        \A q \in ReadingsOf(e) :
            /\ Abs(population[p].data_year - year) <= Abs(population[q].data_year - year)
            /\ Abs(population[p].data_year - year) = Abs(population[q].data_year - year)
                  => population[p].data_year <= population[q].data_year}

\* C2: whenever get_population(year) returns a population, it is the
\* population of a reading whose data_year is nearest to the year asked for,
\* the earlier year winning a tie.
C2_NearestReading ==
    (ret.op = "get_population" /\ ret.year # NULL /\ ret.kind = "int") =>
        \E p \in NearestReadings(ret.arg, ret.year) : ret.num = population[p].population

\* C3: size_class of an employer with a population reading and a taxonomy is
\* 'Small', 'Medium' or 'Large', never None.
C3_SizeClassNeverNone ==
    (/\ ret.op = "size_class"
     /\ ReadingsOf(ret.arg) # {}
     /\ employers[ret.arg].taxonomy # NULL) =>
        ret.kind = "str" /\ ret.val \in {"Small", "Medium", "Large"}

\* The table of bounds, in thousands, as <<lower, upper>>; <<>> for a key the
\* table lacks.
TableBounds(entity_type, special) ==
    CASE entity_type = "Municipal" /\ ~special -> <<10, 50>>
      [] entity_type = "County" /\ special -> <<500, 1000>>
      [] entity_type = "County" /\ ~special -> <<25, 75>>
      [] entity_type = "Township" /\ special -> <<25, 100>>
      [] entity_type = "Township" /\ ~special -> <<10, 50>>
      [] OTHER -> <<>>

\* The size class of the table for a taxonomy and a population reading p.
TableClass(taxonomy, p) ==
    LET special == TaxonomyRows[taxonomy].chicago \/ TaxonomyRows[taxonomy].cook_or_collar
        bounds == TableBounds(TaxonomyRows[taxonomy].entity_type, special)
    IN  IF TaxonomyRows[taxonomy].entity_type = "Municipal" /\ special THEN "Large"
        ELSE IF p >= bounds[2] * 1000 THEN "Large"
        ELSE IF p >= bounds[1] * 1000 THEN "Medium"
        ELSE "Small"

\* The taxonomy is special Municipal or has bounds in the table.
InTable(taxonomy) ==
    \/ TaxonomyRows[taxonomy].entity_type \in {"Municipal", "County", "Township"}

\* C14: size_class of an employer whose taxonomy is in the table and whose
\* population reading is p is 'Large' if p >= upper * 1000, 'Medium' if
\* lower * 1000 <= p < upper * 1000 and 'Small' otherwise, with the bounds of
\* the table; and 'Large' for every reading of a special Municipal employer.
C14_SizeClassTable ==
    (/\ ret.op = "size_class"
     /\ employers[ret.arg].taxonomy # NULL
     /\ InTable(employers[ret.arg].taxonomy)
     /\ get_population(ret.arg, NULL).kind = "int") =>
        /\ ret.kind = "str"
        /\ ret.val = TableClass(employers[ret.arg].taxonomy,
                                get_population(ret.arg, NULL).num)

-----------------------------------------------------------------------------
(* Claims about ranking (SpecRank) *)

\* The last call was a percentile query that returned a number.
RankedCall ==
    /\ ret.op \in {"employer_percentile", "like_employer_percentile"}
    /\ ret.kind = "float"

\* The number of salary rows the last query ranked.
RankedSize == CountRows(salaries, ret.rows)

\* The rows of the ranked population paid no more than row r, and less than it.
RankedUpTo(r) == {q \in ret.rows : total_pay(q) <= total_pay(r)}

RankedBelow(r) == {q \in ret.rows : total_pay(q) < total_pay(r)}

\* The total pays of the ranked population are exactly these, each once but
\* for the middle one, which two rows have.
RankedPays(low, mid, high) ==
    /\ {total_pay(q) : q \in ret.rows} = {low, mid, high}
    /\ CountRows(salaries, {q \in ret.rows : total_pay(q) = low}) = 1
    /\ CountRows(salaries, {q \in ret.rows : total_pay(q) = mid}) = 2
    /\ CountRows(salaries, {q \in ret.rows : total_pay(q) = high}) = 1

\* The person of the salary asked about holds no row of another total pay in
\* the ranked population.
OnePayInRanked ==
    \A q \in ret.rows :
        person_id(q) = person_id(ret.salary) => total_pay(q) = total_pay(ret.salary)

\* C1 (as stated): the percentile returned for a salary in a ranked population
\* of more than one row is 100 * ((rows paid no more than it) - 1) / (rows - 1).
C1_InclusiveRank ==
    (RankedCall /\ RankedSize > 1) =>
        ret.num * (RankedSize - 1)
            = 100 * (CountRows(salaries, RankedUpTo(ret.salary)) - 1) * ret.den

\* C1 (amended): the percentile returned for a salary in a ranked population of
\* more than one row is 100 * (rows paid less than r) / (rows - 1) for a row r
\* of the salary's person in that population; so with total pays
\* [30000, 45000, 45000, 90000] a 45000 salary whose person holds no other pay
\* there gets 100 / 3, and such a 90000 salary gets 100.
C1_PercentRank ==
    (RankedCall /\ RankedSize > 1) =>
        /\ \E r \in ret.rows :
              /\ person_id(r) = person_id(ret.salary)
              /\ ret.num * (RankedSize - 1)
                   = 100 * CountRows(salaries, RankedBelow(r)) * ret.den
        /\ (RankedPays(30000, 45000, 90000) /\ OnePayInRanked) =>
              /\ total_pay(ret.salary) = 45000 => 3 * ret.num = 100 * ret.den
              /\ total_pay(ret.salary) = 90000 => ret.num = 100 * ret.den

\* A percentile was returned for a 45000 salary ranked among total pays
\* [30000, 45000, 45000, 90000], and it is 100 / 3.
C1_Witness ==
    /\ RankedCall
    /\ RankedPays(30000, 45000, 90000)
    /\ OnePayInRanked
    /\ total_pay(ret.salary) = 45000
    /\ 3 * ret.num = 100 * ret.den

\* C4: in a ranked population of more than one row whose lowest-paid and
\* highest-paid rows are each untied, the lowest-paid salary gets 0 and the
\* highest-paid 100.
C4_Extremes ==
    LET untied(r) == salaries[r] = 1
        lowest == {r \in ret.rows : \A q \in ret.rows \ {r} : total_pay(r) < total_pay(q)}
        highest == {r \in ret.rows : \A q \in ret.rows \ {r} : total_pay(q) < total_pay(r)}
    IN  (/\ RankedCall
         /\ RankedSize > 1
         /\ \E r \in lowest : untied(r)
         /\ \E r \in highest : untied(r)) =>
            /\ ret.salary \in lowest => ret.num = 0
            /\ ret.salary \in highest => ret.num = 100 * ret.den

\* C5: a step that raises one salary's total pay and leaves every other row as
\* it is never lowers the percentile employer_percentile returns for it.
C5_Monotonic ==
    [][\A s \in DOMAIN salaries, pay \in RankPays :
          LET raised == [s EXCEPT !.amount = pay[1], !.extra_pay = pay[2]] IN
          (/\ total_pay(raised) > total_pay(s)
           /\ salaries' = Insert(Remove(salaries, s), raised)) =>
              \A before \in {x \in employer_percentile(s) : x.kind = "float"} :
                  \A after \in {x \in employer_percentile(raised)' : x.kind = "float"} :
                      before.num * after.den <= after.num * before.den]_vars

\* C15 (as stated): the percentile returned for a salary that is the only row
\* of the ranked population is 100.
C15_SingleRowTop == (RankedCall /\ RankedSize = 1) => ret.num = 100 * ret.den

\* C15 (amended): the percentile returned for a salary that is the only row of
\* the ranked population is 0.
C15_SingleRowZero == (RankedCall /\ RankedSize = 1) => ret.num = 0

\* A percentile was returned for a salary ranked alone, while other salaries
\* are stored, and it is 0.
C15_Witness ==
    /\ RankedCall
    /\ RankedSize = 1
    /\ ret.rows = {ret.salary}
    /\ CountRows(salaries, DOMAIN salaries) > 1
    /\ ret.num = 0

\* C17: the percentile returned for a salary is that of its own row in the
\* ranked population, 100 * (rows paid less than it) / (rows - 1), also when
\* its person holds other rows there; so two salaries of one person with
\* different total pay never get each other's percentile.
C17_OwnRow ==
    (RankedCall /\ RankedSize > 1) =>
        ret.num * (RankedSize - 1)
            = 100 * CountRows(salaries, RankedBelow(ret.salary)) * ret.den

-----------------------------------------------------------------------------
(* Claims about reporting years (SpecYear) *)

\* The values a call can return, as <<kind, numerator, denominator>>.
Values(returns) == {<<x.kind, x.num, x.den>> : x \in returns}

Copies(bag, row) == IF row \in DOMAIN bag THEN bag[row] ELSE 0

\* C8: every row a percentile query ranks is of the reporting year of the
\* salary asked about, and a step that adds, removes or changes only salary
\* rows of other reporting years changes no percentile returned for it.
C8_OneReportingYear ==
    /\ [](RankedCall =>
            \A r \in ret.rows :
                ReportingYearOf(r.vintage) = ReportingYearOf(ret.salary.vintage))
    /\ [][\A s \in DOMAIN salaries :
            (/\ salaries' # salaries
             /\ \A r \in DOMAIN salaries \cup DOMAIN salaries' :
                   ReportingYearOf(r.vintage) = ReportingYearOf(s.vintage)
                       => Copies(salaries, r) = Copies(salaries', r)) =>
                /\ Values(employer_percentile(s)') = Values(employer_percentile(s))
                /\ Values(like_employer_percentile(s)')
                     = Values(like_employer_percentile(s))]_vars

\* A percentile was returned for a salary ranked with another row, while its
\* own employer also has a salary of another reporting year.
C8_Witness ==
    /\ RankedCall
    /\ RankedSize > 1
    /\ \E r \in DOMAIN salaries :
          /\ employer_id(r) = employer_id(ret.salary)
          /\ ReportingYearOf(r.vintage) # ReportingYearOf(ret.salary.vintage)
          /\ total_pay(r) < total_pay(ret.salary)

-----------------------------------------------------------------------------
(* Claims about peer groups (SpecLike) *)

\* The employer row of the salary the last call asked about.
AskedEmployer == employers[employer_id(ret.salary)]

\* The last call was like_employer_percentile on a salary of a department whose
\* parent has no taxonomy.
AskedUnderUnclassifiedParent ==
    /\ ret.op = "like_employer_percentile"
    /\ AskedEmployer.parent # NULL
    /\ employers[AskedEmployer.parent].taxonomy = NULL

\* C6 (as stated): for a salary of a department whose parent unit has no
\* taxonomy, like_employer_percentile returns None, whether or not the
\* department has a universe.
C6_NoDataSentinel == AskedUnderUnclassifiedParent => ret.kind = "None"

\* C6 (amended): for a salary of a department whose parent unit has no
\* taxonomy, like_employer_percentile returns None when the department has a
\* universe and 'N/A' when it has none; it never raises and never returns a
\* number.
C6_NoDataWithUniverse ==
    AskedUnderUnclassifiedParent =>
        /\ AskedEmployer.universe # NULL => ret.kind = "None"
        /\ AskedEmployer.universe = NULL => ret.kind = "N/A"

\* None was returned for a salary of a department with a universe.
C6_Witness ==
    /\ AskedUnderUnclassifiedParent
    /\ AskedEmployer.universe # NULL
    /\ ret.kind = "None"

\* C7: like_employer_percentile returns 'N/A', and ranks nothing, for a salary
\* of a unit without taxonomy or of a department without universe, and never
\* returns 'N/A' for any other salary.
C7_NotApplicable ==
    ret.op = "like_employer_percentile" =>
        /\ ret.kind = "N/A" <=>
              \/ AskedEmployer.parent = NULL /\ AskedEmployer.taxonomy = NULL
              \/ AskedEmployer.parent # NULL /\ AskedEmployer.universe = NULL
        /\ ret.kind = "N/A" => ret.rows = {}

\* 'N/A' was returned for a salary of a department without universe whose
\* parent unit has a taxonomy.
C7_Witness ==
    /\ ret.op = "like_employer_percentile"
    /\ ret.kind = "N/A"
    /\ AskedEmployer.parent # NULL
    /\ employers[AskedEmployer.parent].taxonomy # NULL

-----------------------------------------------------------------------------
(* Claims about employer writes (SpecEmp) and deletes (SpecDel) *)

\* The write would give a department a taxonomy or a unit a universe.
MixesClassifications(row) ==
    \/ row.parent # NULL /\ row.taxonomy # NULL
    \/ row.parent = NULL /\ row.universe # NULL

\* C9: no stored department has a taxonomy and no stored unit a universe, and
\* a write that would store one is rejected with a ValidationError and leaves
\* the stored employers as they were.
C9_ExclusiveClassification ==
    /\ [](\A e \in DOMAIN employers : ~MixesClassifications(employers[e]))
    /\ [][(ret'.op = "save_employer" /\ MixesClassifications(ret'.emp)) =>
            ret'.kind = "ValidationError" /\ employers' = employers]_vars

\* The write of a department with a taxonomy was rejected, with a unit stored.
C9_Witness ==
    /\ ret.op = "save_employer"
    /\ ret.emp.parent # NULL
    /\ ret.emp.taxonomy # NULL
    /\ ret.kind = "ValidationError"
    /\ \E e \in DOMAIN employers : employers[e].parent = NULL

\* Every salary has its job, every job its position, every position its
\* employer and every department its parent.
ReferencesExist ==
    /\ \A r \in DOMAIN salaries : r.job \in DOMAIN jobs
    /\ \A j \in DOMAIN jobs : jobs[j].position \in DOMAIN positions
    /\ \A p \in DOMAIN positions : positions[p].employer \in DOMAIN employers
    /\ \A e \in DOMAIN employers :
          employers[e].parent # NULL => employers[e].parent \in DOMAIN employers

\* The employer e, its departments, theirs, and so on (at most as many levels
\* as there are employers).
RECURSIVE Below(_, _)
Below(es, levels) ==
    IF levels = 0 THEN es
    ELSE Below(es \cup {d \in DOMAIN employers : employers[d].parent \in es}, levels - 1)

-----------------------------------------------------------------------------
(* Claims about the ranked populations (SpecOwn, SpecLike) *)

\* The salary rows of the reporting year of the salary asked about whose
\* position's employer is one of es.
SalariesAt(es) ==
    {r \in DOMAIN salaries :
        /\ employer_id(r) \in es
        /\ ReportingYearOf(r.vintage) = ReportingYearOf(ret.salary.vintage)}

\* The departments of employer e.
DepartmentsOf(e) == {d \in DOMAIN employers : employers[d].parent = e}

\* C11 (as stated): employer_percentile ranks the salaries of the year at the
\* unit and all its departments: at E and E's departments when E is a unit, at
\* E's parent and all the parent's departments when E is a department.
C11_UnitAndDepartments ==
    ret.op = "employer_percentile" =>
        LET E == employer_id(ret.salary)
            unit == IF AskedEmployer.parent # NULL THEN AskedEmployer.parent ELSE E
        IN  ret.rows = SalariesAt({unit} \cup DepartmentsOf(unit))

\* C11 (amended): employer_percentile ranks the salaries of the year at E and
\* at the employers whose parent is E: at the unit and its departments when E
\* is a unit, at E alone when E is a department without departments of its
\* own, and then no salary of E's parent or of E's siblings.
C11_EmployerAndChildren ==
    ret.op = "employer_percentile" =>
        LET E == employer_id(ret.salary) IN
        /\ ret.rows = SalariesAt({E} \cup DepartmentsOf(E))
        /\ (AskedEmployer.parent # NULL /\ DepartmentsOf(E) = {}) =>
              \A r \in ret.rows : employer_id(r) = E

\* A salary of a department was ranked while its parent unit and its sibling
\* each have a salary of that year, and only the department's rows were ranked.
C11_Witness ==
    /\ ret.op = "employer_percentile"
    /\ ret.kind = "float"
    /\ AskedEmployer.parent # NULL
    /\ SalariesAt({AskedEmployer.parent}) # {}
    /\ SalariesAt(DepartmentsOf(AskedEmployer.parent) \ {employer_id(ret.salary)}) # {}
    /\ ret.rows = SalariesAt({employer_id(ret.salary)})

\* The last call was like_employer_percentile on a salary of a unit that has a
\* taxonomy.
AskedClassifiedUnit ==
    /\ ret.op = "like_employer_percentile"
    /\ AskedEmployer.parent = NULL
    /\ AskedEmployer.taxonomy # NULL

\* The comparison key of employer e: e if it is a unit, its parent if it is a
\* department.
ComparisonKey(e) == IF employers[e].parent = NULL THEN e ELSE employers[e].parent

\* C12: for a salary of a unit U with a taxonomy, like_employer_percentile
\* ranks exactly the salaries of the year at the employers whose comparison key
\* has U's taxonomy: those of every unit of that taxonomy and of every
\* department of such a unit, and none of a unit, or of a department of a unit,
\* with another taxonomy or none.
C12_UnitPeers ==
    AskedClassifiedUnit =>
        /\ ret.rows = SalariesAt({e \in DOMAIN employers :
                          employers[ComparisonKey(e)].taxonomy = AskedEmployer.taxonomy})
        /\ \A u \in DOMAIN employers :
              (employers[u].parent = NULL /\ employers[u].taxonomy = AskedEmployer.taxonomy)
                  => SalariesAt({u} \cup DepartmentsOf(u)) \subseteq ret.rows
        /\ \A u \in DOMAIN employers :
              (employers[u].parent = NULL /\ employers[u].taxonomy # AskedEmployer.taxonomy)
                  => SalariesAt({u} \cup DepartmentsOf(u)) \cap ret.rows = {}

\* A salary of a classified unit was ranked together with a salary of a
\* department of another unit of the same taxonomy.
C12_Witness ==
    /\ AskedClassifiedUnit
    /\ ret.kind = "float"
    /\ \E r \in ret.rows :
          /\ employers[employer_id(r)].parent # NULL
          /\ employers[employer_id(r)].parent # employer_id(ret.salary)

\* The last call was like_employer_percentile on a salary of a department with
\* a universe whose parent unit has a taxonomy.
AskedClassifiedDepartment ==
    /\ ret.op = "like_employer_percentile"
    /\ AskedEmployer.parent # NULL
    /\ AskedEmployer.universe # NULL
    /\ employers[AskedEmployer.parent].taxonomy # NULL

\* C13: for a salary of a department D with a universe whose parent unit has a
\* taxonomy, like_employer_percentile ranks exactly the salaries of the year at
\* the departments of D's universe whose parent has the taxonomy of D's parent;
\* never a salary of a unit, of a department of another universe or of a
\* department under a parent of another taxonomy.
C13_DepartmentPeers ==
    AskedClassifiedDepartment =>
        /\ ret.rows = SalariesAt({d \in DOMAIN employers :
                          /\ employers[d].parent # NULL
                          /\ employers[d].universe = AskedEmployer.universe
                          /\ employers[employers[d].parent].taxonomy
                               = employers[AskedEmployer.parent].taxonomy})
        /\ \A r \in ret.rows :
              /\ employers[employer_id(r)].parent # NULL
              /\ employers[employer_id(r)].universe = AskedEmployer.universe
              /\ employers[employers[employer_id(r)].parent].taxonomy
                   = employers[AskedEmployer.parent].taxonomy

\* A salary of a classified department was ranked together with a salary of
\* another department, of the same universe under a parent of the same
\* taxonomy.
C13_Witness ==
    /\ AskedClassifiedDepartment
    /\ ret.kind = "float"
    /\ \E r \in ret.rows : employer_id(r) # employer_id(ret.salary)

\* C16: the salary asked about is a row of the population its query ranks, in
\* employer_percentile, in like_employer_percentile of a classified unit and of
\* a classified department under a classified parent; so the population is not
\* empty and the lookup finds a row and returns a number.
C16_RankedWithItself ==
    (\/ ret.op = "employer_percentile"
     \/ AskedClassifiedUnit
     \/ AskedClassifiedDepartment) =>
        /\ ret.salary \in ret.rows
        /\ CountRows(salaries, ret.rows) >= 1
        /\ ret.kind = "float"

\* A salary of a classified department under a classified parent was ranked
\* alone by like_employer_percentile, while a salary of its parent of the same
\* year is stored.
C16_Witness ==
    /\ AskedClassifiedDepartment
    /\ ret.rows = {ret.salary}
    /\ ret.kind = "float"
    /\ SalariesAt({AskedEmployer.parent}) # {}

====
